---- MODULE Spec2Model ----
(***************************************************************************)
(* The x402 facilitator (x402-facilitator/src/server.ts): the /verify,     *)
(* /settle and /supported handlers, the relay client they await, and the   *)
(* error middleware.  Strings whose content the code inspects are          *)
(* sequences of tokens: an amount is a sequence of characters, a network   *)
(* name a sequence of name parts.                                          *)
(***************************************************************************)
EXTENDS Integers, Sequences, FiniteSets, TLC

VARIABLES
    MOCK_MODE,            \* server.ts:18
    NETWORK,              \* server.ts:16
    KORA_SIGNER_ADDRESS,  \* process.env.KORA_SIGNER_ADDRESS, server.ts:164
    pc,                   \* per request: where its handler stands
    route,                \* per request: the route it was sent to
    payload,              \* per request: req.body
    parsedOk,             \* per request: the local of server.ts:65
    format,               \* per request: which parser accepted the bytes
    trace,                \* per request: the stages its handler has run, in order
    calls,                \* per request: the relay operations it has invoked
    relayResult,          \* per request: what the awaited relay call answered
    responses             \* per request: the responses sent on its res object

vars == <<MOCK_MODE, NETWORK, KORA_SIGNER_ADDRESS, pc, route, payload, parsedOk,
          format, trace, calls, relayResult, responses>>

config == <<MOCK_MODE, NETWORK, KORA_SIGNER_ADDRESS>>

----------------------------------------------------------------------------
(* Bounds *)

\* Longest metadata.amount string, in characters.
MaxAmountLen == 2

\* Requests the server handles in one run.
NumReqs == 2

Reqs == 1..NumReqs

----------------------------------------------------------------------------
(* Input domains *)

\* The characters of an amount; "Infinity" stands for the eight-letter word.
Digits == {"0", "1"}
AmountChars == Digits \cup {"-", "a", "Infinity"}
AmountStrings == UNION {[1..n -> AmountChars] : n \in 0..MaxAmountLen}

\* A network name, as its parts.
NetworkNames ==
    { <<"solana-", "devnet">>, <<"mainnet">>, <<"x-", "solana-", "devnet">> }
PayloadNetworks == { <<"solana-", "devnet">>, <<"mainnet">> }

Recipients == {"Rcp1", "Rcp2"}

\* payload.transaction as JSON delivers it: absent, the empty string, a
\* number (truthy, not a string), or a non-empty base64 string, whose bytes
\* the legacy parser and the versioned parser each accept or reject.
Transactions ==
    { [kind |-> "absent", legacyOk |-> FALSE, versionedOk |-> FALSE],
      [kind |-> "empty",  legacyOk |-> FALSE, versionedOk |-> FALSE],
      [kind |-> "number", legacyOk |-> FALSE, versionedOk |-> FALSE] }
    \cup [kind : {"string"}, legacyOk : BOOLEAN, versionedOk : BOOLEAN]

NoMetadata ==
    [present |-> FALSE, hasAmount |-> FALSE, amount |-> <<>>, recipient |-> "Rcp1"]

Metadatas ==
    {NoMetadata}
    \cup [present : {TRUE}, hasAmount : {FALSE}, amount : {<<>>}, recipient : Recipients]
    \cup [present : {TRUE}, hasAmount : {TRUE}, amount : AmountStrings, recipient : Recipients]

Payloads == [transaction : Transactions, network : PayloadNetworks, metadata : Metadatas]

\* The settle handler reads no field of metadata.
SettlePayloads == {p \in Payloads : p.metadata.hasAmount = FALSE /\ p.metadata.recipient = "Rcp1"}

NoArg == [kind |-> "none", legacyOk |-> FALSE, versionedOk |-> FALSE]

NoPayload ==
    [transaction |-> [kind |-> "absent", legacyOk |-> FALSE, versionedOk |-> FALSE],
     network |-> <<>>, metadata |-> NoMetadata]

\* What the relay can answer.
Signatures == {"sig1", "sig2"}
RelayErrors == {"insufficient funds", "relay timeout"}
PayerAddresses == {"KoraPayer1"}
SignerAddresses == {"", "ConfiguredSigner1"}
BodyParserErrors == {"Unexpected token in JSON"}

\* What the clients send: every payload to a server handling one request,
\* and, to keep the product of the requests' states small, a payload of
\* each validation outcome, and of each decoding outcome among the valid
\* ones, to a server handling several.
ConcurrentPayloads ==
    {p \in Payloads :
        /\ p.network = <<"mainnet">>
        /\ p.metadata.recipient = "Rcp1"
        /\ p.transaction.kind \in {"empty", "string"}
        /\ \/ p.transaction.legacyOk = p.transaction.versionedOk
           \/ p.metadata.hasAmount /\ p.metadata.amount = <<"1">>
        /\ p.metadata.hasAmount => p.metadata.amount \in {<<"0">>, <<"1">>}
        /\ p.metadata.present => p.metadata.hasAmount}

Active == {r \in Reqs : pc[r] # "off"}

VerifyInputs == IF Cardinality(Active) = 1 THEN Payloads ELSE ConcurrentPayloads

SettleInputs ==
    IF Cardinality(Active) = 1 THEN SettlePayloads
    ELSE {p \in ConcurrentPayloads : ~p.metadata.present}

----------------------------------------------------------------------------
(* Pure helpers *)

\* JavaScript truthiness of payload.transaction.
Truthy(tx) == tx.kind \in {"number", "string"}

NaN == [kind |-> "NaN", val |-> 0]

RECURSIVE DigitPrefix(_)
DigitPrefix(s) ==
    IF s = <<>> \/ Head(s) \notin Digits THEN <<>>
    ELSE <<Head(s)>> \o DigitPrefix(Tail(s))

RECURSIVE DigitsValue(_)
DigitsValue(ds) ==
    IF ds = <<>> THEN 0
    ELSE 10 * DigitsValue(SubSeq(ds, 1, Len(ds) - 1))
         + (IF ds[Len(ds)] = "1" THEN 1 ELSE 0)

\* parseFloat: an optional sign, then Infinity or the longest run of digits;
\* whatever follows is ignored, and no numeric prefix at all gives NaN.
\* An infinity carries its sign in val.
ParseFloat(s) ==
    LET neg  == s # <<>> /\ Head(s) = "-"
        sign == IF neg THEN -1 ELSE 1
        rest == IF neg THEN Tail(s) ELSE s
        ds   == DigitPrefix(rest)
    IN  IF rest # <<>> /\ Head(rest) = "Infinity" THEN [kind |-> "Inf", val |-> sign]
        ELSE IF ds = <<>> THEN NaN
        ELSE [kind |-> "Num", val |-> sign * DigitsValue(ds)]

\* parseFloat(payload.metadata.amount); an absent amount reads as undefined.
ExpectedAmount(p) ==
    IF p.metadata.hasAmount THEN ParseFloat(p.metadata.amount) ELSE NaN

IsNaN(x) == x.kind = "NaN"

LeZero(x) == x.kind # "NaN" /\ x.val <= 0

----------------------------------------------------------------------------
(* POST /verify, server.ts:41-117 *)

Response(status, body) == [status |-> status, body |-> body]

\* A presence test that lets the empty string through.
MissingTransaction_undefinedOnly(p) == p.transaction.kind = "absent"

\* server.ts:48
MissingTransaction(p) == ~Truthy(p.transaction)

\* The metadata check left out.
MissingMetadata_unchecked(p) == FALSE

\* server.ts:55
MissingMetadata(p) == ~p.metadata.present

\* server.ts:63: Buffer.from(value, 'base64') accepts any string and throws a
\* TypeError for a number; the call stands outside the inner try.
BufferFromThrows(tx) == tx.kind \notin {"string", "empty"}

BufferTypeError == "The first argument must be of type string"

\* The versioned parser tried first.
Decode_versionedFirst(tx) ==
    IF tx.versionedOk THEN "Versioned"
    ELSE IF tx.legacyOk THEN "Legacy"
    ELSE "Unrecognized"

\* server.ts:67-77: the legacy parser first, the versioned one in its catch.
Decode(tx) ==
    IF tx.legacyOk THEN "Legacy"
    ELSE IF tx.versionedOk THEN "Versioned"
    ELSE "Unrecognized"

DecodeTrace(tx) ==
    IF tx.legacyOk THEN <<"Transaction.from">>
    ELSE <<"Transaction.from", "VersionedTransaction.deserialize">>

\* server.ts:69, 73: parsedOk is set where a parser returned.
ParsedOk(tx) == IF tx.legacyOk THEN TRUE ELSE IF tx.versionedOk THEN TRUE ELSE FALSE

\* server.ts:81
InvalidAmount(x) == LeZero(x) \/ IsNaN(x)

\* The verify handler asking the relay to broadcast.
VerifyRelayCall_broadcast(p) == [op |-> "signAndSend", arg |-> p.transaction]

\* server.ts:90
VerifyRelayCall(p) == [op |-> "sign", arg |-> p.transaction]

\* The relay's message attached whatever the mode.
VerifyRelayFailure_ungated(msg) ==
    [status |-> 200, body |-> [isValid |-> FALSE, error |-> "Transaction validation failed",
                               details |-> msg]]

\* server.ts:93-97: res.json drops a field whose value is undefined.
VerifyRelayFailure(msg) ==
    IF MOCK_MODE
    THEN Response(200, [isValid |-> FALSE, error |-> "Transaction validation failed",
                        details |-> msg])
    ELSE Response(200, [isValid |-> FALSE, error |-> "Transaction validation failed"])

\* The configured network reported in place of the request's.
VerifySuccess_configuredNetwork(p, parsed) ==
    [status |-> 200, body |-> [isValid |-> TRUE, network |-> NETWORK,
                               amount |-> p.metadata.amount,
                               recipient |-> p.metadata.recipient, parsed |-> parsed]]

\* server.ts:102-108
VerifySuccess(p, parsed) ==
    Response(200, [isValid |-> TRUE, network |-> p.network,
                   amount |-> p.metadata.amount,
                   recipient |-> p.metadata.recipient, parsed |-> parsed])

\* server.ts:110-116
VerifyFault(msg) == Response(500, [isValid |-> FALSE, error |-> msg])

Ended(tr, resp) ==
    [pc |-> "done", trace |-> tr, parsedOk |-> FALSE, format |-> "none",
     calls |-> <<>>, responses |-> <<resp>>]

\* The handler with the amount validated before the transaction is decoded.
VerifyBegin_validateFirst(p) ==
    IF MissingTransaction(p) THEN
        Ended(<<"checkTransaction">>,
              Response(400, [isValid |-> FALSE, error |-> "Missing transaction data"]))
    ELSE IF MissingMetadata(p) THEN
        Ended(<<"checkTransaction", "checkMetadata">>,
              Response(400, [isValid |-> FALSE, error |-> "Missing payment metadata"]))
    ELSE IF InvalidAmount(ExpectedAmount(p)) THEN
        Ended(<<"checkTransaction", "checkMetadata", "checkAmount">>,
              Response(400, [isValid |-> FALSE, error |-> "Invalid payment amount"]))
    ELSE IF BufferFromThrows(p.transaction) THEN
        Ended(<<"checkTransaction", "checkMetadata", "checkAmount", "Buffer.from", "catch">>,
              VerifyFault(BufferTypeError))
    ELSE
        [pc |-> "awaitSign",
         trace |-> <<"checkTransaction", "checkMetadata", "checkAmount", "Buffer.from">>
                   \o DecodeTrace(p.transaction) \o <<"sign">>,
         parsedOk |-> ParsedOk(p.transaction), format |-> Decode(p.transaction),
         calls |-> <<VerifyRelayCall(p)>>,
         responses |-> <<>>]

\* The handler from its entry to its first await or its response.
VerifyBegin(p) ==
    IF MissingTransaction(p) THEN
        Ended(<<"checkTransaction">>,
              Response(400, [isValid |-> FALSE, error |-> "Missing transaction data"]))
    ELSE IF MissingMetadata(p) THEN
        Ended(<<"checkTransaction", "checkMetadata">>,
              Response(400, [isValid |-> FALSE, error |-> "Missing payment metadata"]))
    ELSE IF BufferFromThrows(p.transaction) THEN
        Ended(<<"checkTransaction", "checkMetadata", "Buffer.from", "catch">>,
              VerifyFault(BufferTypeError))
    ELSE
        LET decoded == <<"checkTransaction", "checkMetadata", "Buffer.from">>
                       \o DecodeTrace(p.transaction)
            sniffed == [parsedOk |-> ParsedOk(p.transaction),
                        format |-> Decode(p.transaction)]
        IN  IF InvalidAmount(ExpectedAmount(p)) THEN
                [pc |-> "done", trace |-> decoded \o <<"checkAmount">>,
                 parsedOk |-> sniffed.parsedOk, format |-> sniffed.format,
                 calls |-> <<>>,
                 responses |-> <<Response(400, [isValid |-> FALSE,
                                                error |-> "Invalid payment amount"])>>]
            ELSE
                [pc |-> "awaitSign", trace |-> decoded \o <<"checkAmount", "sign">>,
                 parsedOk |-> sniffed.parsedOk, format |-> sniffed.format,
                 calls |-> <<VerifyRelayCall(p)>>,
                 responses |-> <<>>]

Install(r, p, rt, st) ==
    /\ route' = [route EXCEPT ![r] = rt]
    /\ payload' = [payload EXCEPT ![r] = p]
    /\ pc' = [pc EXCEPT ![r] = st.pc]
    /\ trace' = [trace EXCEPT ![r] = st.trace]
    /\ parsedOk' = [parsedOk EXCEPT ![r] = st.parsedOk]
    /\ format' = [format EXCEPT ![r] = st.format]
    /\ calls' = [calls EXCEPT ![r] = st.calls]
    /\ responses' = [responses EXCEPT ![r] = st.responses]

VerifyRequest(r) ==
    /\ pc[r] = "idle"
    /\ \E p \in VerifyInputs : Install(r, p, "verify", VerifyBegin(p))
    /\ UNCHANGED <<config, relayResult>>

\* The relay answers the awaited call (server.ts:90, 137, 165).
Answer(r, ok, value) ==
    relayResult' = [relayResult EXCEPT ![r] = [answered |-> TRUE, ok |-> ok, value |-> value]]

\* The response written on the res object of the first connection, as a
\* handler keeping res in a variable shared by the requests would.
Respond_sharedRes(r, stage, resp) ==
    /\ pc' = [pc EXCEPT ![r] = "done"]
    /\ trace' = [trace EXCEPT ![r] = Append(@, stage)]
    /\ responses' = [responses EXCEPT ![1] = Append(@, resp)]
    /\ UNCHANGED <<config, route, payload, parsedOk, format, calls>>

\* The response sent, and sent again by the code after a branch that does
\* not return.
Respond_noReturn(r, stage, resp) ==
    /\ pc' = [pc EXCEPT ![r] = "done"]
    /\ trace' = [trace EXCEPT ![r] = Append(@, stage)]
    /\ responses' = [responses EXCEPT ![r] = Append(Append(@, resp), resp)]
    /\ UNCHANGED <<config, route, payload, parsedOk, format, calls>>

Respond(r, stage, resp) ==
    /\ pc' = [pc EXCEPT ![r] = "done"]
    /\ trace' = [trace EXCEPT ![r] = Append(@, stage)]
    /\ responses' = [responses EXCEPT ![r] = Append(@, resp)]
    /\ UNCHANGED <<config, route, payload, parsedOk, format, calls>>

\* server.ts:100-108
SignResolved(r, sig) ==
    /\ pc[r] = "awaitSign"
    /\ Answer(r, TRUE, sig)
    /\ Respond(r, "respondValid", VerifySuccess(payload[r], parsedOk[r]))

\* server.ts:91-98
SignRejected(r, msg) ==
    /\ pc[r] = "awaitSign"
    /\ Answer(r, FALSE, msg)
    /\ Respond(r, "respondInvalid", VerifyRelayFailure(msg))

----------------------------------------------------------------------------
(* POST /settle, server.ts:123-155 *)

\* server.ts:137
SettleRelayCall(p) == [op |-> "signAndSend", arg |-> p.transaction]

\* String.prototype.replace with a string pattern: the first occurrence of
\* the pattern, wherever it stands, is replaced; here by nothing.
RECURSIVE ReplaceFirst(_, _)
ReplaceFirst(s, pat) ==
    IF s = <<>> THEN <<>>
    ELSE IF Head(s) = pat THEN Tail(s)
    ELSE <<Head(s)>> \o ReplaceFirst(Tail(s), pat)

\* The cluster parameter left as the whole network name.
ExplorerUrl_noStrip(sig) ==
    <<"https://explorer.solana.com/tx/", sig, "?cluster=">> \o NETWORK

\* server.ts:145
ExplorerUrl(sig) ==
    <<"https://explorer.solana.com/tx/", sig, "?cluster=">> \o ReplaceFirst(NETWORK, "solana-")

\* server.ts:141-146
SettleSuccess(p, sig) ==
    Response(200, [success |-> TRUE, signature |-> sig, network |-> p.network,
                   explorerUrl |-> ExplorerUrl(sig)])

\* The failure reported with the success flag set.
SettleFault_success(msg) == [status |-> 500, body |-> [success |-> TRUE, error |-> msg]]

\* server.ts:148-154
SettleFault(msg) == Response(500, [success |-> FALSE, error |-> msg])

SettleBegin(p) ==
    IF MissingTransaction(p) THEN
        Ended(<<"checkTransaction">>,
              Response(400, [success |-> FALSE, error |-> "Missing transaction data"]))
    ELSE
        [pc |-> "awaitSignAndSend", trace |-> <<"checkTransaction", "signAndSend">>,
         parsedOk |-> FALSE, format |-> "none",
         calls |-> <<SettleRelayCall(p)>>, responses |-> <<>>]

SettleRequest(r) ==
    /\ pc[r] = "idle"
    /\ \E p \in SettleInputs : Install(r, p, "settle", SettleBegin(p))
    /\ UNCHANGED <<config, relayResult>>

SignAndSendResolved(r, sig) ==
    /\ pc[r] = "awaitSignAndSend"
    /\ Answer(r, TRUE, sig)
    /\ Respond(r, "respondSettled", SettleSuccess(payload[r], sig))

SignAndSendRejected(r, msg) ==
    /\ pc[r] = "awaitSignAndSend"
    /\ Answer(r, FALSE, msg)
    /\ Respond(r, "catch", SettleFault(msg))

----------------------------------------------------------------------------
(* GET /supported, server.ts:161-190 *)

USDC_MINT == "Gh9ZwEmdLJ8DscKNTkTqPbNwLNNBjuSzaG9Vp2KGtKJr"

\* server.ts:164
MockFeePayer ==
    IF KORA_SIGNER_ADDRESS # "" THEN KORA_SIGNER_ADDRESS
    ELSE "MockPayerAddress11111111111111111111111111"

\* The failure's message handed on as the address.
PayerFallback_message(msg) == msg

\* server.ts:165, the catch of the fee-payer query
PayerFallback(msg) == "UnknownPayerAddress"

\* server.ts:167-183
Capabilities(feePayer) ==
    Response(200, [version |-> "0.0.1", network |-> NETWORK, paymentScheme |-> "exact",
                   feePayer |-> feePayer,
                   tokens |-> <<[mint |-> USDC_MINT, symbol |-> "USDC", decimals |-> 6]>>,
                   endpoints |-> [verify |-> "/verify", settle |-> "/settle"]])

AwaitPayerSigner ==
    [pc |-> "awaitPayerSigner", trace |-> <<"getPayerSigner">>,
     parsedOk |-> FALSE, format |-> "none",
     calls |-> <<[op |-> "getPayerSigner", arg |-> NoArg]>>, responses |-> <<>>]

\* The relay asked for its fee payer in mock mode too.
SupportedBegin_alwaysQuery == AwaitPayerSigner

SupportedBegin ==
    IF MOCK_MODE THEN
        Ended(<<"mockFeePayer", "respondCapabilities">>, Capabilities(MockFeePayer))
    ELSE AwaitPayerSigner

SupportedRequest(r) ==
    /\ pc[r] = "idle"
    /\ Install(r, NoPayload, "supported", SupportedBegin)
    /\ UNCHANGED <<config, relayResult>>

GetPayerSignerResolved(r, addr) ==
    /\ pc[r] = "awaitPayerSigner"
    /\ Answer(r, TRUE, addr)
    /\ Respond(r, "respondCapabilities", Capabilities(addr))

GetPayerSignerRejected(r, msg) ==
    /\ pc[r] = "awaitPayerSigner"
    /\ Answer(r, FALSE, msg)
    /\ Respond(r, "respondCapabilities", Capabilities(PayerFallback(msg)))

----------------------------------------------------------------------------
(* Error-handling middleware, server.ts:254-260: reached when express.json    *)
(* (server.ts:9) rejects the body of a POST before its handler runs.          *)

MiddlewareFault(msg) ==
    Response(500, [error |-> "Internal server error", message |-> msg])

BodyParserFault(r) ==
    /\ pc[r] = "idle"
    /\ \E rt \in {"verify", "settle"}, msg \in BodyParserErrors :
          Install(r, NoPayload, rt,
                  Ended(<<"express.json", "errorMiddleware">>, MiddlewareFault(msg)))
    /\ UNCHANGED <<config, relayResult>>

----------------------------------------------------------------------------
(* The server *)

NotAnswered == [answered |-> FALSE, ok |-> FALSE, value |-> ""]

InitRequests(active) ==
    /\ pc = [r \in Reqs |-> IF r \in active THEN "idle" ELSE "off"]
    /\ route = [r \in Reqs |-> "none"]
    /\ payload = [r \in Reqs |-> NoPayload]
    /\ parsedOk = [r \in Reqs |-> FALSE]
    /\ format = [r \in Reqs |-> "none"]
    /\ trace = [r \in Reqs |-> <<>>]
    /\ calls = [r \in Reqs |-> <<>>]
    /\ relayResult = [r \in Reqs |-> NotAnswered]
    /\ responses = [r \in Reqs |-> <<>>]

\* server.ts:12-21: the configuration is read once, at startup.
InitConfig ==
    /\ MOCK_MODE \in BOOLEAN
    /\ NETWORK \in NetworkNames
    /\ KORA_SIGNER_ADDRESS \in SignerAddresses

\* One request at a time.
Init == InitConfig /\ InitRequests({1})

\* NumReqs requests in flight together, their handlers interleaved at the
\* awaits.
InitConcurrent == InitConfig /\ InitRequests(Reqs)

\* A request arrives on a free connection, or the relay answers an awaited
\* call.
Next ==
    \E r \in Reqs :
        \/ VerifyRequest(r)
        \/ \E sig \in Signatures : SignResolved(r, sig)
        \/ \E msg \in RelayErrors : SignRejected(r, msg)
        \/ SettleRequest(r)
        \/ \E sig \in Signatures : SignAndSendResolved(r, sig)
        \/ \E msg \in RelayErrors : SignAndSendRejected(r, msg)
        \/ SupportedRequest(r)
        \/ \E addr \in PayerAddresses : GetPayerSignerResolved(r, addr)
        \/ \E msg \in RelayErrors : GetPayerSignerRejected(r, msg)
        \/ BodyParserFault(r)

Spec == Init /\ [][Next]_vars

SpecConcurrent == InitConcurrent /\ [][Next]_vars

\* The relay's answer to the call request r awaits.
RelayAnswers(r) ==
    \/ \E sig \in Signatures : SignResolved(r, sig)
    \/ \E msg \in RelayErrors : SignRejected(r, msg)
    \/ \E sig \in Signatures : SignAndSendResolved(r, sig)
    \/ \E msg \in RelayErrors : SignAndSendRejected(r, msg)
    \/ \E addr \in PayerAddresses : GetPayerSignerResolved(r, addr)
    \/ \E msg \in RelayErrors : GetPayerSignerRejected(r, msg)

\* Every awaited relay call is answered in the end: the promise the handler
\* awaits settles, and the event loop then runs the handler's continuation.
SpecFair == Init /\ [][Next]_vars /\ \A r \in Reqs : WF_vars(RelayAnswers(r))

----------------------------------------------------------------------------
(* Vocabulary of the properties *)

\* The route's handler was entered with a parsed body.
HandlerRan(r) ==
    /\ pc[r] \notin {"idle", "off"}
    /\ trace[r][1] # "express.json"

RelayOps(r) == {calls[r][i].op : i \in DOMAIN calls[r]}

RelayFailed(r) == relayResult[r].answered /\ ~relayResult[r].ok

RelaySucceeded(r) == relayResult[r].answered /\ relayResult[r].ok

\* The string-valued fields a response body can carry.
TextFields == {"error", "details", "message", "feePayer", "signature"}

Carries(resp, text) ==
    \E f \in DOMAIN resp.body \cap TextFields : resp.body[f] = text

WhollyNumeric(s) == s # <<>> /\ \A i \in DOMAIN s : s[i] \in Digits

\* The network name without a leading "solana-".
StripPrefix(net) ==
    IF net # <<>> /\ Head(net) = "solana-" THEN Tail(net) ELSE net

----------------------------------------------------------------------------
(* C1: a /verify or /settle request whose transaction is missing or empty  *)
(* ends with the 400 response "Missing transaction data", its discriminant *)
(* false, and without any relay operation having been invoked.             *)
C1_MissingTransactionRejected ==
    \A r \in Reqs :
        (/\ HandlerRan(r)
         /\ route[r] \in {"verify", "settle"}
         /\ payload[r].transaction.kind \in {"absent", "empty"})
        => /\ pc[r] = "done"
           /\ calls[r] = <<>>
           /\ responses[r] =
                IF route[r] = "verify"
                THEN <<[status |-> 400,
                        body |-> [isValid |-> FALSE, error |-> "Missing transaction data"]]>>
                ELSE <<[status |-> 400,
                        body |-> [success |-> FALSE, error |-> "Missing transaction data"]]>>

C1_Witness ==
    \E r \in Reqs :
        /\ route[r] = "settle"
        /\ HandlerRan(r)
        /\ payload[r].transaction.kind = "empty"
        /\ pc[r] = "done"

(* C2: a /verify request with a truthy transaction and present metadata    *)
(* whose amount parses to NaN (an absent amount included) or to a number   *)
(* <= 0 is answered 400 "Invalid payment amount", and sign is not called.  *)
C2_InvalidAmountRejected ==
    \A r \in Reqs :
        (/\ HandlerRan(r)
         /\ route[r] = "verify"
         /\ Truthy(payload[r].transaction)
         /\ payload[r].metadata.present
         /\ (IsNaN(ExpectedAmount(payload[r])) \/ LeZero(ExpectedAmount(payload[r]))))
        => /\ "sign" \notin RelayOps(r)
           /\ responses[r] =
                <<[status |-> 400,
                   body |-> [isValid |-> FALSE, error |-> "Invalid payment amount"]]>>

(* C3: /verify calls sign only for a request with a truthy transaction,    *)
(* present metadata and an amount that is wholly numeric and parses to a   *)
(* finite number > 0.                                                      *)
C3_SignOnlyAfterFiniteAmount ==
    \A r \in Reqs :
        (route[r] = "verify" /\ "sign" \in RelayOps(r))
        => /\ Truthy(payload[r].transaction)
           /\ payload[r].metadata.present
           /\ payload[r].metadata.hasAmount
           /\ WhollyNumeric(payload[r].metadata.amount)
           /\ ExpectedAmount(payload[r]).kind = "Num"
           /\ ExpectedAmount(payload[r]).val > 0

(* C4: when the sign call of a /verify request fails, the request ends     *)
(* with one 200 response, isValid false and the generic error; the relay's *)
(* message is in it, as details, exactly in mock mode, so that outside     *)
(* mock mode the response is the same whatever the relay's message.        *)
C4_RelayFailureIsGenericInvalid ==
    /\ \A r1, r2 \in Reqs :
          (/\ route[r1] = "verify" /\ RelayFailed(r1)
           /\ route[r2] = "verify" /\ RelayFailed(r2)
           /\ payload[r1] = payload[r2]
           /\ ~MOCK_MODE)
          => responses[r1] = responses[r2]
    /\ \A r \in Reqs :
        (route[r] = "verify" /\ RelayFailed(r))
        => /\ pc[r] = "done"
           /\ Len(responses[r]) = 1
           /\ responses[r][1].status = 200
           /\ responses[r][1].body.isValid = FALSE
           /\ responses[r][1].body.error = "Transaction validation failed"
           /\ Carries(responses[r][1], relayResult[r].value) <=> MOCK_MODE
           /\ MOCK_MODE => responses[r][1].body.details = relayResult[r].value
           /\ ~MOCK_MODE =>
                responses[r][1] =
                    [status |-> 200,
                     body |-> [isValid |-> FALSE, error |-> "Transaction validation failed"]]

C4_Witness ==
    \E r1, r2 \in Reqs :
        /\ route[r1] = "verify" /\ RelayFailed(r1) /\ pc[r1] = "done"
        /\ route[r2] = "verify" /\ RelayFailed(r2) /\ pc[r2] = "done"
        /\ payload[r1] = payload[r2]
        /\ relayResult[r1].value # relayResult[r2].value
        /\ ~MOCK_MODE

(* C5: when the sign call of a /verify request succeeds, the one response  *)
(* is 200 with isValid true, the request's own network, amount string and  *)
(* recipient, and parsed, which is true exactly when the decoded format is *)
(* Legacy or Versioned.                                                    *)
C5_SuccessEchoesRequest ==
    \A r \in Reqs :
        (route[r] = "verify" /\ RelaySucceeded(r))
        => /\ pc[r] = "done"
           /\ format[r] \in {"Legacy", "Versioned", "Unrecognized"}
           /\ responses[r] =
                <<[status |-> 200,
                   body |-> [isValid |-> TRUE,
                             network |-> payload[r].network,
                             amount |-> payload[r].metadata.amount,
                             recipient |-> payload[r].metadata.recipient,
                             parsed |-> (format[r] \in {"Legacy", "Versioned"})]]>>

C5_Witness ==
    \E r \in Reqs :
        /\ route[r] = "verify"
        /\ RelaySucceeded(r)
        /\ payload[r].network # NETWORK
        /\ format[r] = "Unrecognized"
        /\ pc[r] = "done"

(* C6: a /verify request with a truthy transaction and valid metadata has  *)
(* its transaction decoded to Legacy, Versioned or Unrecognized, goes on   *)
(* to the sign call, and is never answered with the 500 response.          *)
C6_DecodeNeverFaults ==
    \A r \in Reqs :
        (/\ HandlerRan(r)
         /\ route[r] = "verify"
         /\ Truthy(payload[r].transaction)
         /\ payload[r].metadata.present
         /\ ExpectedAmount(payload[r]).kind = "Num"
         /\ ExpectedAmount(payload[r]).val > 0)
        => /\ format[r] \in {"Legacy", "Versioned", "Unrecognized"}
           /\ "sign" \in RelayOps(r)
           /\ \A i \in DOMAIN responses[r] : responses[r][i].status # 500

FirstIndex(s, pat) ==
    IF \E i \in DOMAIN s : s[i] = pat
    THEN CHOOSE i \in DOMAIN s : s[i] = pat /\ \A j \in 1..(i - 1) : s[j] # pat
    ELSE 0

\* The name with its first "solana-", wherever it stands, taken out.
WithoutFirst(s, pat) ==
    IF FirstIndex(s, pat) = 0 THEN s
    ELSE SubSeq(s, 1, FirstIndex(s, pat) - 1) \o SubSeq(s, FirstIndex(s, pat) + 1, Len(s))

SettleOutcome(r, cluster) ==
    \/ /\ RelaySucceeded(r)
       /\ responses[r] =
            <<[status |-> 200,
               body |-> [success |-> TRUE,
                         signature |-> relayResult[r].value,
                         network |-> payload[r].network,
                         explorerUrl |-> <<"https://explorer.solana.com/tx/",
                                           relayResult[r].value, "?cluster=">> \o cluster]]>>
    \/ /\ RelayFailed(r)
       /\ responses[r] =
            <<[status |-> 500,
               body |-> [success |-> FALSE, error |-> relayResult[r].value]]>>

SettleRelayed(r, cluster) ==
    (/\ HandlerRan(r)
     /\ route[r] = "settle"
     /\ Truthy(payload[r].transaction))
    => /\ calls[r] = <<[op |-> "signAndSend", arg |-> payload[r].transaction]>>
       /\ pc[r] = "awaitSignAndSend" => responses[r] = <<>> /\ ~relayResult[r].answered
       /\ pc[r] # "awaitSignAndSend" => pc[r] = "done" /\ SettleOutcome(r, cluster)

(* C7, as claimed: a /settle request with a truthy transaction calls       *)
(* signAndSend with it, metadata or not, and ends either with success and  *)
(* the relay's id, the request's network and an explorer URL whose cluster *)
(* is the configured network less its "solana-" prefix, or with a 500      *)
(* carrying the failure's message.                                         *)
C7_SettleStripsPrefix ==
    \A r \in Reqs : SettleRelayed(r, StripPrefix(NETWORK))

(* C7, amended: the same, the cluster being the configured network less    *)
(* the first "solana-" in it, wherever that stands.                        *)
C7_SettleRemovesFirstOccurrence ==
    \A r \in Reqs : SettleRelayed(r, WithoutFirst(NETWORK, "solana-"))

C7_Witness ==
    \E r \in Reqs :
        /\ route[r] = "settle"
        /\ RelaySucceeded(r)
        /\ ~payload[r].metadata.present
        /\ NETWORK = <<"x-", "solana-", "devnet">>
        /\ pc[r] = "done"

(* C8: a /supported request answers 200 with the configured network, the   *)
(* scheme "exact" and at least one token; in mock mode the fee payer is    *)
(* the configured address or the placeholder and the relay is not asked;   *)
(* otherwise the relay is asked once, and a failure of that query leaves   *)
(* feePayer at "UnknownPayerAddress" in a response that still succeeds.    *)
C8_SupportedAlwaysAnswers ==
    \A r \in Reqs :
        (route[r] = "supported" /\ pc[r] # "idle")
        => /\ MOCK_MODE => calls[r] = <<>> /\ pc[r] = "done"
           /\ ~MOCK_MODE => calls[r] = <<[op |-> "getPayerSigner", arg |-> NoArg]>>
           /\ pc[r] = "awaitPayerSigner" => responses[r] = <<>>
           /\ pc[r] # "awaitPayerSigner" =>
                /\ pc[r] = "done"
                /\ Len(responses[r]) = 1
                /\ responses[r][1].status = 200
                /\ responses[r][1].body.network = NETWORK
                /\ responses[r][1].body.paymentScheme = "exact"
                /\ Len(responses[r][1].body.tokens) >= 1
                /\ responses[r][1].body.feePayer =
                     IF MOCK_MODE
                     THEN (IF KORA_SIGNER_ADDRESS = ""
                           THEN "MockPayerAddress11111111111111111111111111"
                           ELSE KORA_SIGNER_ADDRESS)
                     ELSE IF RelayFailed(r) THEN "UnknownPayerAddress"
                     ELSE relayResult[r].value

C8_Witness ==
    \E r \in Reqs :
        /\ route[r] = "supported"
        /\ ~MOCK_MODE
        /\ RelayFailed(r)
        /\ pc[r] = "done"

(* C9: a /verify request makes at most one relay call, a sign; a /settle   *)
(* request at most one, a signAndSend; a request whose relay call failed   *)
(* has made that one call only and has terminated.                         *)
C9_OneRelayCallNoRetry ==
    \A r \in Reqs :
        /\ Len(calls[r]) <= 1
        /\ route[r] = "verify" => RelayOps(r) \subseteq {"sign"}
        /\ route[r] = "settle" => RelayOps(r) \subseteq {"signAndSend"}
        /\ RelayFailed(r) => Len(calls[r]) = 1 /\ pc[r] = "done"

C9_Witness ==
    \E r \in Reqs :
        /\ route[r] = "verify"
        /\ RelayFailed(r)
        /\ Len(calls[r]) = 1
        /\ pc[r] = "done"

(* C10, as claimed: outside mock mode no response, on any route, carries   *)
(* the message of the relay's failure.                                     *)
C10_NoRelayDetailOutsideMock ==
    \A r \in Reqs :
        (RelayFailed(r) /\ ~MOCK_MODE)
        => \A i \in DOMAIN responses[r] : ~Carries(responses[r][i], relayResult[r].value)

(* C10, amended: on /verify and /supported a response carries the message  *)
(* of the relay's failure only in mock mode; the 500 of a failed /settle   *)
(* carries it, as error, in either mode; the fault handler's response      *)
(* follows no relay call.                                                  *)
C10_RelayDetailGatedOnVerifyOnly ==
    \A r \in Reqs :
        /\ (RelayFailed(r) /\ route[r] \in {"verify", "supported"})
           => \A i \in DOMAIN responses[r] :
                Carries(responses[r][i], relayResult[r].value) => MOCK_MODE
        /\ (RelayFailed(r) /\ route[r] = "settle")
           => /\ Len(responses[r]) = 1
              /\ responses[r][1].body.error = relayResult[r].value
        /\ (pc[r] = "done" /\ ~HandlerRan(r))
           => calls[r] = <<>> /\ ~relayResult[r].answered

C10_Witness ==
    \E r \in Reqs :
        /\ route[r] = "settle"
        /\ RelayFailed(r)
        /\ ~MOCK_MODE
        /\ Carries(responses[r][1], relayResult[r].value)

Discriminants(resp) == DOMAIN resp.body \cap {"isValid", "success"}

Discriminant(resp) ==
    IF "isValid" \in DOMAIN resp.body THEN resp.body.isValid ELSE resp.body.success

(* C11, as claimed: every response, on every route and path, carries the   *)
(* field isValid or the field success, true exactly when the request       *)
(* succeeded.                                                              *)
C11_EveryResponseHasDiscriminant ==
    \A r \in Reqs : \A i \in DOMAIN responses[r] :
        /\ Discriminants(responses[r][i]) # {}
        /\ Discriminant(responses[r][i]) = TRUE
           <=> (responses[r][i].status = 200 /\ ~RelayFailed(r))

(* C11, amended: every response of the /verify handler carries isValid and *)
(* every response of the /settle handler carries success, true exactly     *)
(* when the relay call succeeded; the responses of /supported and of the   *)
(* fault handler carry neither field.                                      *)
C11_DiscriminantOnVerifyAndSettle ==
    \A r \in Reqs : \A i \in DOMAIN responses[r] :
        /\ (HandlerRan(r) /\ route[r] = "verify")
           => /\ Discriminants(responses[r][i]) = {"isValid"}
              /\ responses[r][i].body.isValid = RelaySucceeded(r)
        /\ (HandlerRan(r) /\ route[r] = "settle")
           => /\ Discriminants(responses[r][i]) = {"success"}
              /\ responses[r][i].body.success = RelaySucceeded(r)
        /\ (route[r] = "supported" \/ ~HandlerRan(r))
           => Discriminants(responses[r][i]) = {}

C11_Witness ==
    \E r \in Reqs :
        /\ route[r] = "supported"
        /\ pc[r] = "done"
        /\ Len(responses[r]) = 1
        /\ responses[r][1].status = 200
        /\ Discriminants(responses[r][1]) = {}

\* What a request answers when it is the only one the server handles: its
\* route's handler applied to its payload, the configuration and the
\* relay's answer to its call.
AloneAfterAnswer(rt, p, ans) ==
    IF rt = "verify"
    THEN (IF ans.ok THEN VerifySuccess(p, ParsedOk(p.transaction))
          ELSE VerifyRelayFailure(ans.value))
    ELSE IF rt = "settle"
    THEN (IF ans.ok THEN SettleSuccess(p, ans.value) ELSE SettleFault(ans.value))
    ELSE (IF ans.ok THEN Capabilities(ans.value) ELSE Capabilities(PayerFallback(ans.value)))

AloneBegin(rt, p) ==
    IF rt = "verify" THEN VerifyBegin(p)
    ELSE IF rt = "settle" THEN SettleBegin(p)
    ELSE SupportedBegin

Alone(rt, p, ans) ==
    IF AloneBegin(rt, p).pc = "done" THEN AloneBegin(rt, p).responses
    ELSE IF ans.answered THEN <<AloneAfterAnswer(rt, p, ans)>>
    ELSE <<>>

AnswersAsAlone ==
    \A r \in Reqs :
        /\ HandlerRan(r) => responses[r] = Alone(route[r], payload[r], relayResult[r])
        /\ (pc[r] = "done" /\ ~HandlerRan(r))
           => \E msg \in BodyParserErrors : responses[r] = <<MiddlewareFault(msg)>>
        /\ pc[r] \in {"idle", "off"} => responses[r] = <<>>

perRequest(r) ==
    <<pc[r], route[r], payload[r], parsedOk[r], format[r], trace[r], calls[r],
      relayResult[r], responses[r]>>

\* A step touches the state of one request and leaves the configuration.
TouchesOneRequest ==
    /\ config' = config
    /\ \E r \in Reqs : \A q \in Reqs \ {r} : perRequest(q)' = perRequest(q)

(* C12: with the requests' handlers interleaved at their awaits, each      *)
(* request answers what it would answer alone with its payload, the        *)
(* configuration and its relay answer; a step of one request changes no    *)
(* other request's state, and no step changes the configuration.           *)
C12_RequestsIndependent == []AnswersAsAlone /\ [][TouchesOneRequest]_vars

C12_Witness ==
    \E r1, r2 \in Reqs :
        /\ r1 # r2
        /\ route[r1] = "verify" /\ pc[r1] = "awaitSign"
        /\ route[r2] = "settle" /\ pc[r2] = "done" /\ RelayFailed(r2)

VerifyError(r) == {responses[r][i].body.error : i \in DOMAIN responses[r]}

(* C13: /verify checks transaction, then metadata, then amount, and stops  *)
(* at the first failure: without a transaction the answer is "Missing      *)
(* transaction data" whatever the metadata; with a transaction and no      *)
(* metadata it is "Missing payment metadata"; "Invalid payment amount" is  *)
(* answered only to a request with both.                                   *)
C13_FirstFailingCheckReported ==
    \A r \in Reqs :
        (HandlerRan(r) /\ route[r] = "verify")
        => /\ ~Truthy(payload[r].transaction)
              => /\ trace[r] = <<"checkTransaction">>
                 /\ responses[r] =
                      <<[status |-> 400,
                         body |-> [isValid |-> FALSE, error |-> "Missing transaction data"]]>>
           /\ (Truthy(payload[r].transaction) /\ ~payload[r].metadata.present)
              => /\ trace[r] = <<"checkTransaction", "checkMetadata">>
                 /\ responses[r] =
                      <<[status |-> 400,
                         body |-> [isValid |-> FALSE, error |-> "Missing payment metadata"]]>>
           /\ (responses[r] # <<>> /\ ~responses[r][1].body.isValid
               /\ responses[r][1].body.error = "Invalid payment amount")
              => /\ Truthy(payload[r].transaction)
                 /\ payload[r].metadata.present
                 /\ responses[r][1].status = 400
                 /\ trace[r][Len(trace[r])] = "checkAmount"

C13_Witness ==
    \E r \in Reqs :
        /\ HandlerRan(r) /\ route[r] = "verify"
        /\ ~Truthy(payload[r].transaction)
        /\ ~payload[r].metadata.present
        /\ pc[r] = "done"
        /\ responses[r][1].body.error = "Missing transaction data"

\* Where a stage stands in a request's trace; 0 when the request did not
\* reach it.
StageIndex(r, stage) ==
    IF \E i \in DOMAIN trace[r] : trace[r][i] = stage
    THEN CHOOSE i \in DOMAIN trace[r] : trace[r][i] = stage
    ELSE 0

Reached(r, stage) == StageIndex(r, stage) > 0

Before(r, a, b) == Reached(r, a) /\ StageIndex(r, a) < StageIndex(r, b)

StructurallyRejected(r) ==
    /\ responses[r] # <<>>
    /\ responses[r][1].status = 400

(* C14, as claimed: in a /verify request the decoder runs only after all   *)
(* three validator checks have passed, so that a request rejected with a   *)
(* structural error, an invalid amount included, is never decoded.         *)
C14_DecodeAfterWholeValidation ==
    \A r \in Reqs :
        (HandlerRan(r) /\ route[r] = "verify")
        => /\ Reached(r, "Buffer.from")
              => /\ Before(r, "checkTransaction", "Buffer.from")
                 /\ Before(r, "checkMetadata", "Buffer.from")
                 /\ Before(r, "checkAmount", "Buffer.from")
           /\ StructurallyRejected(r) => ~Reached(r, "Buffer.from")

(* C14, amended: in a /verify request the decoder runs after the           *)
(* transaction check and the metadata check have passed and before the     *)
(* amount check, and sign is called after the amount check; a request      *)
(* rejected for a missing transaction or missing metadata is never         *)
(* decoded, and a request rejected for an invalid amount has been decoded. *)
C14_DecodeBetweenMetadataAndAmount ==
    \A r \in Reqs :
        (HandlerRan(r) /\ route[r] = "verify")
        => /\ Reached(r, "Buffer.from")
              => /\ Before(r, "checkTransaction", "checkMetadata")
                 /\ Before(r, "checkMetadata", "Buffer.from")
                 /\ ~MissingTransaction(payload[r])
                 /\ ~MissingMetadata(payload[r])
           /\ Reached(r, "checkAmount") => Before(r, "Buffer.from", "checkAmount")
           /\ Reached(r, "sign")
              => /\ Before(r, "checkAmount", "sign")
                 /\ ~InvalidAmount(ExpectedAmount(payload[r]))
           /\ (StructurallyRejected(r)
               /\ responses[r][1].body.error
                    \in {"Missing transaction data", "Missing payment metadata"})
              => ~Reached(r, "Buffer.from")
           /\ (StructurallyRejected(r)
               /\ responses[r][1].body.error = "Invalid payment amount")
              => /\ Before(r, "Buffer.from", "Transaction.from")
                 /\ format[r] \in {"Legacy", "Versioned", "Unrecognized"}

C14_Witness ==
    \E r \in Reqs :
        /\ HandlerRan(r) /\ route[r] = "verify"
        /\ StructurallyRejected(r)
        /\ responses[r][1].body.error = "Invalid payment amount"
        /\ Reached(r, "Transaction.from")

Decoded(r) == HandlerRan(r) /\ route[r] = "verify" /\ Reached(r, "Transaction.from")

(* C15: the decoder tries the legacy parser first and the versioned one    *)
(* only after it failed: the tag is Legacy whenever the legacy parse       *)
(* succeeds, the versioned parser then not being invoked; Versioned        *)
(* exactly when legacy fails and versioned succeeds; Unrecognized exactly  *)
(* when both fail; so the tag depends on the bytes alone.                  *)
C15_LegacyFirstDecode ==
    \A r \in Reqs :
        Decoded(r)
        => /\ payload[r].transaction.legacyOk
              => /\ format[r] = "Legacy"
                 /\ ~Reached(r, "VersionedTransaction.deserialize")
           /\ ~payload[r].transaction.legacyOk
              => Before(r, "Transaction.from", "VersionedTransaction.deserialize")
           /\ format[r] = "Versioned"
              <=> (~payload[r].transaction.legacyOk /\ payload[r].transaction.versionedOk)
           /\ format[r] = "Unrecognized"
              <=> (~payload[r].transaction.legacyOk /\ ~payload[r].transaction.versionedOk)
           /\ \A q \in Reqs :
                (Decoded(q) /\ payload[q].transaction = payload[r].transaction)
                => format[q] = format[r]

C15_Witness ==
    \E r, q \in Reqs :
        /\ r # q
        /\ Decoded(r) /\ Decoded(q)
        /\ payload[q].transaction = payload[r].transaction
        /\ payload[r].transaction.legacyOk
        /\ payload[r].transaction.versionedOk
        /\ format[r] = "Legacy"

Awaiting == {"awaitSign", "awaitSignAndSend", "awaitPayerSigner"}

OneResponse ==
    \A r \in Reqs :
        /\ pc[r] \in {"off", "idle", "done"} \cup Awaiting
        /\ pc[r] = "done" => Len(responses[r]) = 1
        /\ pc[r] # "done" => responses[r] = <<>>
        /\ (route[r] \in {"verify", "settle", "supported"}) <=> pc[r] \in Awaiting \cup {"done"}

\* A request that has answered stays answered, with the response it sent.
Terminal ==
    \A r \in Reqs :
        pc[r] = "done" => pc'[r] = "done" /\ responses'[r] = responses[r]

(* C16: every /verify, /settle and /supported request sends one response:  *)
(* none before it terminates, exactly one once it has, on every path, and  *)
(* nothing after; and, every awaited relay call being answered in the end, *)
(* every request received terminates.                                      *)
C16_ExactlyOneResponse ==
    /\ []OneResponse
    /\ [][Terminal]_vars
    /\ \A r \in Reqs : (pc[r] \in Awaiting) ~> (pc[r] = "done")

C16_Witness ==
    \E r \in Reqs :
        /\ route[r] = "verify"
        /\ HandlerRan(r)
        /\ trace[r][Len(trace[r])] = "catch"
        /\ pc[r] = "done"
        /\ Len(responses[r]) = 1
        /\ responses[r][1].status = 500

====
